---- MODULE Spec2Model ----
(***************************************************************************)
(* A model of the detection pipeline of ShapeDetector (src/src/main.ts):   *)
(* binary mask -> connected components (flood fill) -> boundary -> convex  *)
(* hull (Graham scan) -> Douglas-Peucker simplification -> classification. *)
(*                                                                         *)
(* Pixel coordinates are the code's 0-based (x, y); the flat arrays        *)
(* `binary` and `labeled` are sequences, so array index i is element i+1.  *)
(***************************************************************************)
EXTENDS Integers, Sequences, FiniteSets, TLC

VARIABLES
    pc,          \* position of the run: which call has returned
    image,       \* the input image: [width, height, binary]
    components,  \* what findConnectedComponents returned
    boundaries,  \* extractBoundary of each component, in component order
    arg,         \* the arguments of the function under test
    ret,         \* what the function under test returned
    result,      \* what detectShapes returned
    trace        \* per analysed component: its index and the outcome

vars == <<pc, image, components, boundaries, arg, ret, result, trace>>

None == <<>>

-----------------------------------------------------------------------------
(* Bounds of the model *)

\* width and height of the images whose masks are enumerated exhaustively
MaskW == 3
MaskH == 3

\* convexHull is applied to up to MaxHullPts distinct points with coordinates
\* in 0..HullGrid-1, in every input order
HullGrid == 3
MaxHullPts == 4

\* douglasPeucker is applied to every sequence of up to MaxDPPts points,
\* repeats included, with coordinates in 0..DPGridW-1 x 0..DPGridH-1
DPGridW == 3
DPGridH == 2
MaxDPPts == 4

\* detectShapes is applied to images of ImgW x ImgH pixels
ImgW == 12
ImgH == 12

-----------------------------------------------------------------------------
(* Points and sequences *)

Pt(x, y) == [x |-> x, y |-> y]

Range(s) == {s[i] : i \in 1..Len(s)}

Last(s) == s[Len(s)]

Front(s) == SubSeq(s, 1, Len(s) - 1)

Min(a, b) == IF a < b THEN a ELSE b

Max(a, b) == IF a > b THEN a ELSE b

Abs(a) == IF a < 0 THEN -a ELSE a

\* F(v).  TLC evaluates the operand of an operator, and a definition of a
\* LET, each time it is used; here v is evaluated once and F gets its value.
With(v, F(_)) == CHOOSE out \in {F(x) : x \in {v}} : TRUE

SetMin(S) == CHOOSE m \in S : \A n \in S : m <= n

SetMax(S) == CHOOSE m \in S : \A n \in S : m >= n

Pixels(width, height) == {Pt(x, y) : x \in 0..(width - 1), y \in 0..(height - 1)}

\* idx = y * width + x, as position in a sequence
Idx(p, width) == p.y * width + p.x + 1

InImage(p, width, height) ==
    p.x >= 0 /\ p.x < width /\ p.y >= 0 /\ p.y < height

-----------------------------------------------------------------------------
(* floodFill, findConnectedComponents *)

\* the four pushes of floodFill, in push order (the last is popped first)
FloodPushNoUp(p) ==
    <<Pt(p.x + 1, p.y), Pt(p.x - 1, p.y), Pt(p.x, p.y + 1)>>

FloodPush(p) ==
    <<Pt(p.x + 1, p.y), Pt(p.x - 1, p.y), Pt(p.x, p.y + 1), Pt(p.x, p.y - 1)>>

\* one iteration of the loop without `labeled[idx] = 1`
FloodStepUnlabelled(s, binary, width, height) ==
    IF s.stack = <<>> THEN s
    ELSE LET p == Last(s.stack)
             rest == Front(s.stack)
         IN  IF ~InImage(p, width, height)
             THEN [s EXCEPT !.stack = rest]
             ELSE IF binary[Idx(p, width)] = 0 \/ s.labeled[Idx(p, width)] = 1
             THEN [s EXCEPT !.stack = rest]
             ELSE [stack     |-> rest \o FloodPush(p),
                   labeled   |-> s.labeled,
                   component |-> Append(s.component, p)]

\* one iteration of the while loop of floodFill;
\* s = [stack, labeled, component], unchanged once the stack is empty
FloodStep(s, binary, width, height) ==
    IF s.stack = <<>> THEN s
    ELSE LET p == Last(s.stack)
             rest == Front(s.stack)
         IN  IF ~InImage(p, width, height)
             THEN [s EXCEPT !.stack = rest]
             ELSE IF binary[Idx(p, width)] = 0 \/ s.labeled[Idx(p, width)] = 1
             THEN [s EXCEPT !.stack = rest]
             ELSE [stack     |-> rest \o FloodPush(p),
                   labeled   |-> [s.labeled EXCEPT ![Idx(p, width)] = 1],
                   component |-> Append(s.component, p)]

\* at most k iterations of the loop
RECURSIVE FloodRun(_, _, _, _, _)
FloodRun(s, k, binary, width, height) ==
    IF s.stack = <<>> \/ k = 0 THEN s
    ELSE IF k = 1 THEN FloodStep(s, binary, width, height)
    ELSE With(FloodRun(s, k \div 2, binary, width, height),
              LAMBDA t : FloodRun(t, k - (k \div 2), binary, width, height))

\* every labelled pixel is pushed from at most 4 neighbours and once as the
\* start, so the loop ends within 4 * width * height + 1 iterations
FloodBound(width, height) == 4 * width * height + 1

\* floodFill: the component and the updated `labeled` array
floodFill(binary, labeled, startX, startY, width, height) ==
    LET s == FloodRun([stack |-> <<Pt(startX, startY)>>,
                       labeled |-> labeled,
                       component |-> <<>>],
                      FloodBound(width, height), binary, width, height)
    IN  [component |-> s.component, labeled |-> s.labeled, stack |-> s.stack]

\* the body of the double loop with `components.unshift(component)`
ScanPixelUnshift(st, i, binary, width, height) ==
    IF binary[i] = 1 /\ st.labeled[i] = 0
    THEN LET f == floodFill(binary, st.labeled,
                            (i - 1) % width, (i - 1) \div width, width, height)
         IN  [labeled    |-> f.labeled,
              components |-> IF Len(f.component) > 0
                             THEN <<f.component>> \o st.components
                             ELSE st.components]
    ELSE st

\* the body of the double loop of findConnectedComponents for idx = i - 1;
\* st = [labeled, components]
ScanPixel(st, i, binary, width, height) ==
    IF binary[i] = 1 /\ st.labeled[i] = 0
    THEN LET f == floodFill(binary, st.labeled,
                            (i - 1) % width, (i - 1) \div width, width, height)
         IN  [labeled    |-> f.labeled,
              components |-> IF Len(f.component) > 0
                             THEN Append(st.components, f.component)
                             ELSE st.components]
    ELSE st

\* the pixels lo..hi in row-major order
RECURSIVE ScanRange(_, _, _, _, _, _)
ScanRange(st, lo, hi, binary, width, height) ==
    IF lo > hi THEN st
    ELSE IF lo = hi THEN ScanPixel(st, lo, binary, width, height)
    ELSE LET mid == (lo + hi) \div 2
         IN  With(ScanRange(st, lo, mid, binary, width, height),
                  LAMBDA t : ScanRange(t, mid + 1, hi, binary, width, height))

findConnectedComponents(binary, width, height) ==
    ScanRange([labeled |-> [i \in 1..(width * height) |-> 0],
               components |-> <<>>],
              1, width * height, binary, width, height).components

-----------------------------------------------------------------------------
(* extractBoundary *)

Neighbors(p) ==
    {Pt(p.x + 1, p.y), Pt(p.x - 1, p.y), Pt(p.x, p.y + 1), Pt(p.x, p.y - 1)}

\* a neighbour counts when it is inside the image and not in the component
IsBoundaryPixel(p, componentSet, width, height) ==
    \E n \in Neighbors(p) :
        /\ InImage(n, width, height)
        /\ Idx(n, width) \notin componentSet

extractBoundary(component, width, height) ==
    LET componentSet == {Idx(p, width) : p \in Range(component)}
    IN  SelectSeq(component,
                  LAMBDA p : IsBoundaryPixel(p, componentSet, width, height))

-----------------------------------------------------------------------------
(* convexHull (Graham scan) *)

crossProduct(o, a, b) ==
    (a.x - o.x) * (b.y - o.y) - (a.y - o.y) * (b.x - o.x)

\* the point the loop over `points` leaves in `bottom`: the largest y, and
\* among those the smallest x
BottomPoint(points) ==
    CHOOSE p \in Range(points) :
        \A q \in Range(points) : p.y > q.y \/ (p.y = q.y /\ p.x <= q.x)

\* Math.atan2(a.y - bottom.y, a.x - bottom.x) < Math.atan2(b.y - bottom.y,
\* b.x - bottom.x).  No point lies below `bottom` and none lies left of it on
\* its row, so every angle is in (-pi, 0], with atan2(0, 0) = 0 and
\* atan2(0, dx) = 0 for dx > 0; two angles in that range compare as the sign
\* of the cross product of their directions, and directions that are
\* multiples of each other give the same angle.
AngleDir(a, bottom) ==
    IF a.x = bottom.x /\ a.y = bottom.y
    THEN [x |-> 1, y |-> 0]
    ELSE [x |-> a.x - bottom.x, y |-> a.y - bottom.y]

AngleLess(a, b, bottom) ==
    LET u == AngleDir(a, bottom)
        v == AngleDir(b, bottom)
    IN  u.x * v.y - u.y * v.x > 0

\* points.slice().sort(by angle): Array.prototype.sort is stable, so points
\* of equal angle keep their input order
SortByAngle(points, bottom) ==
    LET n == Len(points)
        rank(i) ==
            Cardinality({j \in 1..n : AngleLess(points[j], points[i], bottom)})
            + Cardinality({j \in 1..(i - 1) :
                              ~AngleLess(points[j], points[i], bottom)
                              /\ ~AngleLess(points[i], points[j], bottom)})
            + 1
    IN  [k \in 1..n |-> points[CHOOSE i \in 1..n : rank(i) = k]]

\* the while loop: pop while the last two points and p make no left turn
RECURSIVE HullPop(_, _)
HullPop(hull, p) ==
    IF Len(hull) >= 2 /\ crossProduct(hull[Len(hull) - 1], hull[Len(hull)], p) <= 0
    THEN HullPop(Front(hull), p)
    ELSE hull

\* the for loop over sorted[i..]
RECURSIVE HullScan(_, _, _)
HullScan(hull, sorted, i) ==
    IF i > Len(sorted) THEN hull
    ELSE With(Append(HullPop(hull, sorted[i]), sorted[i]),
              LAMBDA pushed : HullScan(pushed, sorted, i + 1))

convexHull(points) ==
    IF Len(points) < 3 THEN points
    ELSE With(SortByAngle(points, BottomPoint(points)),
              LAMBDA sorted : HullScan(<<>>, sorted, 1))

-----------------------------------------------------------------------------
(* Numbers.  The code computes lengths in double precision.  The model keeps *)
(* a length as an interval [lo, hi] of integers that encloses it at a fixed *)
(* decimal scale; a comparison whose outcome the enclosure does not settle  *)
(* (the two sides are closer than the scale resolves, where the outcome in  *)
(* double precision hangs on rounding) comes out as the parameter r says,   *)
(* and the actions take r from BOOLEAN.                                     *)

\* lengths are enclosed in thousandths, tolerances in millionths
Thousand == 10 * 100
Million == Thousand * Thousand

\* the largest r in lo..hi with r * r <= n, given lo * lo <= n
RECURSIVE ISqrtIn(_, _, _)
ISqrtIn(n, lo, hi) ==
    IF lo >= hi THEN lo
    ELSE LET mid == (lo + hi + 1) \div 2
         IN  IF mid * mid <= n THEN ISqrtIn(n, mid, hi) ELSE ISqrtIn(n, lo, mid - 1)

\* floor of the square root of n, for 0 <= n < 2^31
ISqrt(n) == ISqrtIn(n, 0, Min(n, 46340))

\* Math.sqrt(n) for an integer n >= 0, enclosed in thousandths
Sqrt(n) ==
    LET r == ISqrt(n * Million)
    IN  IF r * r = n * Million THEN [lo |-> r, hi |-> r] ELSE [lo |-> r, hi |-> r + 1]

\* the sign of p1/q1 - p2/q2 for p1, p2 >= 0 and q1, q2 > 0, by continued
\* fractions (no product is formed, so nothing overflows)
RECURSIVE FracCmp(_, _, _, _)
FracCmp(p1, q1, p2, q2) ==
    LET i1 == p1 \div q1
        i2 == p2 \div q2
        r1 == p1 % q1
        r2 == p2 % q2
    IN  IF i1 # i2 THEN (IF i1 < i2 THEN -1 ELSE 1)
        ELSE IF r1 = 0 /\ r2 = 0 THEN 0
        ELSE IF r1 = 0 THEN -1
        ELSE IF r2 = 0 THEN 1
        ELSE FracCmp(q2, r2, q1, r1)

\* the sign of a * b - c * d for a, b, c, d >= 0
ProdCmp(a, b, c, d) ==
    IF a = 0 \/ b = 0 THEN (IF c = 0 \/ d = 0 THEN 0 ELSE -1)
    ELSE IF c = 0 \/ d = 0 THEN 1
    ELSE FracCmp(a, c, d, b)

\* a tolerance given as a whole number, as the literal 0 in douglasPeucker(points, 0)
EpsExact(n) == [lo |-> n * Million, hi |-> n * Million, exact |-> TRUE, inf |-> FALSE]

\* the tolerance Infinity
EpsInfinity == [lo |-> 0, hi |-> 0, exact |-> TRUE, inf |-> TRUE]

\* c * perimeter for c = k / 1000 (0.01, 0.005, 0.03), in millionths
EpsOfPerimeter(k, perimeter) ==
    [lo |-> k * perimeter.lo, hi |-> k * perimeter.hi, exact |-> FALSE, inf |-> FALSE]

\* the sum of the lengths s[lo..hi]
RECURSIVE SumLengths(_, _, _)
SumLengths(s, lo, hi) ==
    IF lo > hi THEN [lo |-> 0, hi |-> 0]
    ELSE IF lo = hi THEN s[lo]
    ELSE LET mid == (lo + hi) \div 2
             a == SumLengths(s, lo, mid)
             b == SumLengths(s, mid + 1, hi)
         IN  [lo |-> a.lo + b.lo, hi |-> a.hi + b.hi]

-----------------------------------------------------------------------------
(* calculatePerimeter, samplePoints *)

SquaredDistance(p1, p2) ==
    (p2.x - p1.x) * (p2.x - p1.x) + (p2.y - p1.y) * (p2.y - p1.y)

calculatePerimeter(contour) ==
    LET n == Len(contour)
        d == [i \in 1..n |->
                 Sqrt(SquaredDistance(contour[i], contour[(i % n) + 1]))]
    IN  SumLengths(d, 1, n)

-----------------------------------------------------------------------------
(* douglasPeucker, perpendicularDistance *)

\* perpendicularDistance returns num / Math.sqrt(den2); the model keeps the
\* pair.  When lineStart = lineEnd both are 0 and the code's quotient is NaN.
perpendicularDistance(point, lineStart, lineEnd) ==
    LET dx == lineEnd.x - lineStart.x
        dy == lineEnd.y - lineStart.y
    IN  [num  |-> Abs(dy * point.x - dx * point.y
                      + lineEnd.x * lineStart.y - lineEnd.y * lineStart.x),
         den2 |-> dx * dx + dy * dy]

\* the loop of douglasPeucker: [maxNum, index] with maxDist = maxNum / sqrt(den2)
\* and index the 1-based position of the first point at that distance; all
\* distances of one call share den2, so `dist > maxDist` compares the
\* numerators, and a NaN distance (den2 = 0) is never greater: maxDist and
\* index keep their initial 0.
FarthestPoint(points) ==
    LET end == Len(points)
        d(i) == perpendicularDistance(points[i], points[1], points[end])
        den2 == d(2).den2
        maxNum == IF den2 = 0 THEN 0 ELSE SetMax({d(i).num : i \in 2..(end - 1)})
    IN  [maxNum |-> maxNum,
         den2   |-> den2,
         index  |-> IF maxNum = 0 THEN 0
                    ELSE SetMin({i \in 2..(end - 1) : d(i).num = maxNum})]

\* maxDist > epsilon with the tolerance Infinity taken for its stored 0
ExceedsFiniteEpsilon(maxNum, den2, epsilon, r) ==
    maxNum # 0 /\ den2 # 0

\* maxDist > epsilon, for epsilon >= 0
ExceedsEpsilon(maxNum, den2, epsilon, r) ==
    IF maxNum = 0 \/ den2 = 0 \/ epsilon.inf THEN FALSE
    ELSE LET den == Sqrt(den2)
             above == ProdCmp(maxNum * Thousand, Million, epsilon.hi, den.hi)
             below == ProdCmp(maxNum * Thousand, Million, epsilon.lo, den.lo)
         IN  IF above = 1 THEN TRUE
             ELSE IF below = -1 THEN FALSE
             ELSE IF epsilon.exact /\ den.lo = den.hi THEN FALSE
             ELSE r

RECURSIVE douglasPeucker(_, _, _)
douglasPeucker(points, epsilon, r) ==
    IF Len(points) < 3 THEN points
    ELSE With(FarthestPoint(points), LAMBDA far :
             IF ExceedsEpsilon(far.maxNum, far.den2, epsilon, r)
             THEN With(<<SubSeq(points, 1, far.index),
                         SubSeq(points, far.index, Len(points))>>,
                       LAMBDA slice :
                           Front(douglasPeucker(slice[1], epsilon, r))
                           \o douglasPeucker(slice[2], epsilon, r))
             ELSE <<points[1], points[Len(points)]>>)

-----------------------------------------------------------------------------
(* classifyShape, isCircular, isStar *)
(*                                                                          *)
(* A ratio of two integers (extent = area / bboxArea, aspectRatio = width / *)
(* height) is kept as the pair [num, den] and compared with a decimal       *)
(* literal by cross-multiplication: the double quotient of two small        *)
(* integers lies on the same side of a two-digit literal as the exact       *)
(* quotient.  circularity = 4 * pi * area / perimeter^2 is kept as the pair *)
(* [area, perimeter].  A confidence is kept in thousandths.  center is kept *)
(* in half pixels: the code's center.x is center.x / 2 here.                *)

\* 4 * pi * 10^7 = 125663706.14...
FourPiE7Lo == 125663706
FourPiE7Hi == 125663707

\* q > pct / 100, q <= pct / 100, q < pct / 100
Above(q, pct) == 100 * q.num > pct * q.den

BelowOrEqual(q, pct) == 100 * q.num <= pct * q.den

Below(q, pct) == 100 * q.num < pct * q.den

\* circularity < c / 1000.  With perimeter 0 the quotient is Infinity
\* (area > 0) or NaN (area = 0), and neither is below anything.
CircularityBelow(circularity, c, r) ==
    LET area == circularity.area
        per == circularity.perimeter
    IN  IF per.hi = 0 THEN FALSE
        ELSE IF ProdCmp(FourPiE7Hi, 100 * area, c * per.lo, per.lo) = -1 THEN TRUE
        ELSE IF ProdCmp(FourPiE7Lo, 100 * area, c * per.hi, per.hi) = 1 THEN FALSE
        ELSE r

\* Math.min(0.08, circularity * 0.1), in thousandths rounded down
CircularityBonus(circularity, r) ==
    Cardinality({c \in 1..80 : ~CircularityBelow(circularity, 10 * c, r)})

\* twice the distance from p to center, enclosed in thousandths
TwiceDistance(p, center) ==
    Sqrt((2 * p.x - center.x) * (2 * p.x - center.x)
         + (2 * p.y - center.y) * (2 * p.y - center.y))

\* |a - c| for a in the enclosure a and an integer c
AbsDiff(a, c) ==
    IF a.lo >= c THEN [lo |-> a.lo - c, hi |-> a.hi - c]
    ELSE IF a.hi <= c THEN [lo |-> c - a.hi, hi |-> c - a.lo]
    ELSE [lo |-> 0, hi |-> Max(c - a.lo, a.hi - c)]

\* |a - b| for two enclosures
AbsDiff2(a, b) ==
    IF a.lo >= b.hi THEN [lo |-> a.lo - b.hi, hi |-> a.hi - b.lo]
    ELSE IF b.lo >= a.hi THEN [lo |-> b.lo - a.hi, hi |-> b.hi - a.lo]
    ELSE [lo |-> 0, hi |-> Max(a.hi - b.lo, b.hi - a.lo)]

isCircular(hull, center, bbox, circularity, extent, aspectRatio, r) ==
    IF 4 * Abs(aspectRatio.num - aspectRatio.den) > aspectRatio.den
    THEN FALSE
    ELSE IF CircularityBelow(circularity, 700, r) \/ Below(extent, 70)
    THEN FALSE
    ELSE \* radius = (width + height) / 4; with e[i] = |dist - radius| in units
         \* of 1/4000, avgError < 0.20 iff sum(e) < 200 * n * (width + height)
         LET n == Len(hull)
             wh == bbox.width + bbox.height
             e == [i \in 1..n |->
                      LET d == TwiceDistance(hull[i], center)
                      IN  AbsDiff([lo |-> 2 * d.lo, hi |-> 2 * d.hi], Thousand * wh)]
             sumError == SumLengths(e, 1, n)
         IN  IF n = 0 THEN FALSE     \* 0 / 0 is NaN, and NaN < 0.20 is false
             ELSE IF sumError.hi < 200 * n * wh THEN TRUE
             ELSE IF sumError.lo > 200 * n * wh THEN FALSE
             ELSE r

isStar(hull, center, vertices, extent, r) ==
    IF Above(extent, 50) THEN FALSE
    ELSE IF vertices < 6 \/ vertices > 25 THEN FALSE
    ELSE IF Len(hull) < 8 THEN FALSE
    ELSE \* with d[i] twice the distances, s their sum and q the sum of their
         \* squares: CoV < 0.10 iff n * q < 1.01 * s^2, and
         \* |d[i] - d[j]| > 0.15 * avgDist iff 100 * n * |d[i] - d[j]| > 15 * s
         LET n == Len(hull)
             d == [i \in 1..n |-> TwiceDistance(hull[i], center)]
             s == SumLengths(d, 1, n)
             sq == [i \in 1..n |->
                       LET v == (2 * hull[i].x - center.x) * (2 * hull[i].x - center.x)
                                + (2 * hull[i].y - center.y) * (2 * hull[i].y - center.y)
                       IN  [lo |-> v, hi |-> v]]
             q == SumLengths(sq, 1, n).lo
             lowCoV ==
                 IF s.hi = 0 THEN FALSE     \* 0 / 0 is NaN, and NaN < 0.10 is false
                 ELSE IF ProdCmp(100 * Thousand * n, Thousand * q, 101 * s.lo, s.lo) = -1
                 THEN TRUE
                 ELSE IF ProdCmp(100 * Thousand * n, Thousand * q, 101 * s.hi, s.hi) = 1
                 THEN FALSE
                 ELSE r
             jump(i) ==
                 LET g == AbsDiff2(d[i], d[(i % n) + 1])
                 IN  IF g.hi = 0 THEN FALSE
                     ELSE IF 100 * n * g.lo > 15 * s.hi THEN TRUE
                     ELSE IF 100 * n * g.hi < 15 * s.lo THEN FALSE
                     ELSE r
             alternations == Cardinality({i \in 1..n : jump(i)})
             minAlternations == Min(4, (n * 3) \div 10)
         IN  IF lowCoV THEN FALSE
             ELSE alternations >= minAlternations

Shape(type, confidence) == [type |-> type, confidence |-> confidence]

\* classifyShape with the last star rule starting at 8 vertices, so that the
\* star test alone decides for 7 vertices
classifyShapeStarRuleFrom8(approx, hull, bbox, center, area, perimeter, r) ==
    LET vertices == Len(approx)
        aspectRatio == [num |-> bbox.width, den |-> bbox.height]
        bboxArea == bbox.width * bbox.height
        extent == [num |-> area, den |-> bboxArea]
        circularity == [area |-> area, perimeter |-> perimeter]
    IN  IF isCircular(hull, center, bbox, circularity, extent, aspectRatio, r)
        THEN Shape("circle", 900 + CircularityBonus(circularity, r))
        ELSE IF vertices = 3
        THEN Shape("triangle", 920)
        ELSE IF vertices = 4 /\ Above(extent, 70)
        THEN Shape("rectangle", IF Above(extent, 85) THEN 950 ELSE 880)
        ELSE IF vertices = 4 /\ Below(extent, 60)
        THEN Shape("triangle", 850)
        ELSE IF vertices = 5 /\ Above(extent, 65)
        THEN Shape("pentagon", IF Above(extent, 75) THEN 880 ELSE 800)
        ELSE IF /\ vertices = 5 /\ Above(extent, 45) /\ ~Above(extent, 65)
                /\ Above(aspectRatio, 70) /\ Below(aspectRatio, 150)
        THEN Shape("rectangle", 820)
        ELSE IF /\ vertices >= 8 /\ Below(extent, 50)
                /\ isStar(hull, center, vertices, extent, r)
        THEN Shape("star", 850)
        ELSE IF /\ vertices >= 6 /\ vertices <= 7 /\ Below(extent, 38)
                /\ isStar(hull, center, vertices, extent, r)
        THEN Shape("star", 750)
        ELSE IF vertices = 4
        THEN Shape("rectangle", 780)
        ELSE IF vertices = 5
        THEN (IF Below(extent, 55) THEN Shape("triangle", 700)
              ELSE Shape("pentagon", 750))
        ELSE IF vertices = 6 /\ Above(extent, 50)
        THEN Shape("pentagon", 700)
        ELSE IF vertices >= 8 /\ Below(extent, 50)
        THEN Shape("star", 700)
        ELSE IF vertices >= 10 /\ Below(extent, 60)
        THEN Shape("star", 650)
        ELSE IF vertices >= 10 /\ Above(extent, 80)
        THEN Shape("rectangle", 600)
        ELSE IF vertices = 2 /\ Above(extent, 85)
        THEN Shape("rectangle", 700)
        ELSE None

\* extent in percent is above, etc., as the code's tests on `extent`
classifyShape(approx, hull, bbox, center, area, perimeter, r) ==
    LET vertices == Len(approx)
        aspectRatio == [num |-> bbox.width, den |-> bbox.height]
        bboxArea == bbox.width * bbox.height
        extent == [num |-> area, den |-> bboxArea]
        circularity == [area |-> area, perimeter |-> perimeter]
    IN  IF isCircular(hull, center, bbox, circularity, extent, aspectRatio, r)
        THEN Shape("circle", 900 + CircularityBonus(circularity, r))
        ELSE IF vertices = 3
        THEN Shape("triangle", 920)
        ELSE IF vertices = 4 /\ Above(extent, 70)
        THEN Shape("rectangle", IF Above(extent, 85) THEN 950 ELSE 880)
        ELSE IF vertices = 4 /\ Below(extent, 60)
        THEN Shape("triangle", 850)
        ELSE IF vertices = 5 /\ Above(extent, 65)
        THEN Shape("pentagon", IF Above(extent, 75) THEN 880 ELSE 800)
        ELSE IF /\ vertices = 5 /\ Above(extent, 45) /\ ~Above(extent, 65)
                /\ Above(aspectRatio, 70) /\ Below(aspectRatio, 150)
        THEN Shape("rectangle", 820)
        ELSE IF /\ vertices >= 8 /\ Below(extent, 50)
                /\ isStar(hull, center, vertices, extent, r)
        THEN Shape("star", 850)
        ELSE IF /\ vertices >= 6 /\ vertices <= 7 /\ Below(extent, 38)
                /\ isStar(hull, center, vertices, extent, r)
        THEN Shape("star", 750)
        ELSE IF vertices = 4
        THEN Shape("rectangle", 780)
        ELSE IF vertices = 5
        THEN (IF Below(extent, 55) THEN Shape("triangle", 700)
              ELSE Shape("pentagon", 750))
        ELSE IF vertices = 6 /\ Above(extent, 50)
        THEN Shape("pentagon", 700)
        ELSE IF vertices >= 7 /\ Below(extent, 50)
        THEN Shape("star", 700)
        ELSE IF vertices >= 10 /\ Below(extent, 60)
        THEN Shape("star", 650)
        ELSE IF vertices >= 10 /\ Above(extent, 80)
        THEN Shape("rectangle", 600)
        ELSE IF vertices = 2 /\ Above(extent, 85)
        THEN Shape("rectangle", 700)
        ELSE None

-----------------------------------------------------------------------------
(* createBinaryMask, samplePoints, analyzeComponent *)

MinComponentPixels == 50
MinBBoxSide == 10
MinBoundaryPoints == 8

\* intensity = (r + g + b) / 3 < 128 iff r + g + b < 384
\* the mask with `a >= 200` for `a > 200`
createBinaryMaskFromAlpha200(data, width, height) ==
    [i \in 1..(width * height) |->
        IF data[i].a >= 200 /\ data[i].r + data[i].g + data[i].b < 3 * 128
        THEN 1 ELSE 0]

createBinaryMask(data, width, height) ==
    [i \in 1..(width * height) |->
        IF data[i].a > 200 /\ data[i].r + data[i].g + data[i].b < 3 * 128
        THEN 1 ELSE 0]

\* Math.floor(i * (points.length / n)) is the exact floor of i * length / n
\* for every length below 400 and n <= 12
samplePoints(points, n) ==
    IF Len(points) <= n THEN points
    ELSE [k \in 1..n |-> points[((k - 1) * Len(points)) \div n + 1]]

BoundingBox(component, width, height) ==
    LET minX == SetMin({width} \cup {component[i].x : i \in 1..Len(component)})
        maxX == SetMax({0} \cup {component[i].x : i \in 1..Len(component)})
        minY == SetMin({height} \cup {component[i].y : i \in 1..Len(component)})
        maxY == SetMax({0} \cup {component[i].y : i \in 1..Len(component)})
    IN  [x |-> minX, y |-> minY, width |-> maxX - minX + 1, height |-> maxY - minY + 1]

IsNoise(component) == Len(component) < MinComponentPixels

TooSmallBoth(bbox) == bbox.width < MinBBoxSide /\ bbox.height < MinBBoxSide

TooSmall(bbox) == bbox.width < MinBBoxSide \/ bbox.height < MinBBoxSide

\* (minX + maxX) / 2 and (minY + maxY) / 2, in half pixels
Center(bbox) ==
    Pt(bbox.x + (bbox.x + bbox.width - 1), bbox.y + (bbox.y + bbox.height - 1))

BoxPixelArea(component) ==
    LET xs == {component[i].x : i \in 1..Len(component)}
        ys == {component[i].y : i \in 1..Len(component)}
    IN  (SetMax(xs) - SetMin(xs) + 1) * (SetMax(ys) - SetMin(ys) + 1)

PixelArea(component) == Len(component)

\* the selection that takes the hull unless extent < 0.40
ContourHullUnlessVeryConcave(boundary, hull, extent) ==
    IF Below(extent, 40) THEN boundary ELSE hull

ContourToUse(boundary, hull, extent) ==
    IF Below(extent, 40) THEN boundary
    ELSE IF Len(hull) < 4 /\ Above(extent, 80) THEN boundary
    ELSE hull

\* the approximation without the finer retry and without the sampling
ApproximateOnce(contourToUse, perimeter, extent, r) ==
    IF Below(extent, 40)
    THEN douglasPeucker(contourToUse, EpsOfPerimeter(10, perimeter), r)
    ELSE With(douglasPeucker(contourToUse, EpsOfPerimeter(10, perimeter), r),
              LAMBDA first :
         IF Len(first) > 12 /\ ~(Above(extent, 80) /\ Len(first) < 20)
         THEN With(douglasPeucker(contourToUse, EpsOfPerimeter(30, perimeter), r),
                   LAMBDA coarserApprox :
                       IF Len(coarserApprox) >= 4 THEN coarserApprox ELSE first)
         ELSE first)

\* the approximation that tries the coarser tolerance whenever there are more
\* than 12 vertices
ApproximateCoarsenAbove12(contourToUse, perimeter, extent, r) ==
    IF Below(extent, 40)
    THEN douglasPeucker(contourToUse, EpsOfPerimeter(10, perimeter), r)
    ELSE With(douglasPeucker(contourToUse, EpsOfPerimeter(10, perimeter), r),
              LAMBDA first :
         With(IF Len(first) < 4 /\ Above(extent, 80)
              THEN douglasPeucker(contourToUse, EpsOfPerimeter(5, perimeter), r)
              ELSE first,
              LAMBDA finer :
         With(IF Len(finer) < 4 /\ Above(extent, 80)
              THEN samplePoints(contourToUse, Min(Len(contourToUse), 12))
              ELSE finer,
              LAMBDA sampled :
         IF Len(sampled) > 12
         THEN With(douglasPeucker(contourToUse, EpsOfPerimeter(30, perimeter), r),
                   LAMBDA coarserApprox :
                       IF Len(coarserApprox) >= 4 THEN coarserApprox ELSE sampled)
         ELSE sampled)))

Approximate(contourToUse, perimeter, extent, r) ==
    IF Below(extent, 40)
    THEN douglasPeucker(contourToUse, EpsOfPerimeter(10, perimeter), r)
    ELSE With(douglasPeucker(contourToUse, EpsOfPerimeter(10, perimeter), r),
              LAMBDA first :
         With(IF Len(first) < 4 /\ Above(extent, 80)
              THEN douglasPeucker(contourToUse, EpsOfPerimeter(5, perimeter), r)
              ELSE first,
              LAMBDA finer :
         With(IF Len(finer) < 4 /\ Above(extent, 80)
              THEN samplePoints(contourToUse, Min(Len(contourToUse), 12))
              ELSE finer,
              LAMBDA sampled :
         IF Len(sampled) > 12 /\ ~(Above(extent, 80) /\ Len(sampled) < 20)
         THEN With(douglasPeucker(contourToUse, EpsOfPerimeter(30, perimeter), r),
                   LAMBDA coarserApprox :
                       IF Len(coarserApprox) >= 4 THEN coarserApprox ELSE sampled)
         ELSE sampled)))

\* the DetectedShape of the component, or None
analyzeComponent(component, width, height, r) ==
    With(BoundingBox(component, width, height), LAMBDA bbox :
    IF TooSmall(bbox) THEN None
    ELSE
    With(extractBoundary(component, width, height), LAMBDA boundary :
    IF Len(boundary) < MinBoundaryPoints THEN None
    ELSE
    With(convexHull(boundary), LAMBDA hull :
    LET center == Center(bbox)
        pixelArea == PixelArea(component)
        extent == [num |-> pixelArea, den |-> bbox.width * bbox.height]
    IN
    With(ContourToUse(boundary, hull, extent), LAMBDA contourToUse :
    With(calculatePerimeter(contourToUse), LAMBDA perimeter :
    With(Approximate(contourToUse, perimeter, extent, r), LAMBDA approx :
    With(classifyShape(approx, hull, bbox, center, pixelArea, perimeter, r),
         LAMBDA classification :
    IF classification = None THEN None
    ELSE [type |-> classification.type,
          confidence |-> classification.confidence,
          boundingBox |-> bbox,
          center |-> center,
          area |-> pixelArea])))))))

\* the loop of detectShapes leaving at the first component that is dropped
RECURSIVE AnalyzeUntilDropped(_, _, _, _, _, _)
AnalyzeUntilDropped(acc, found, k, width, height, r) ==
    IF k > Len(found) THEN acc
    ELSE With(IF IsNoise(found[k]) THEN None
              ELSE analyzeComponent(found[k], width, height, r),
              LAMBDA shape :
                  IF shape = None THEN acc
                  ELSE AnalyzeUntilDropped([shapes |-> Append(acc.shapes, shape),
                                            origin |-> Append(acc.origin, k)],
                                           found, k + 1, width, height, r))

\* the loop of detectShapes over components[k..]; acc = [shapes, origin],
\* where origin[n] is the position of the component that shapes[n] came from
RECURSIVE AnalyzeFrom(_, _, _, _, _, _)
AnalyzeFrom(acc, found, k, width, height, r) ==
    IF k > Len(found) THEN acc
    ELSE With(IF IsNoise(found[k]) THEN None
              ELSE analyzeComponent(found[k], width, height, r),
              LAMBDA shape :
                  AnalyzeFrom(IF shape = None THEN acc
                              ELSE [shapes |-> Append(acc.shapes, shape),
                                    origin |-> Append(acc.origin, k)],
                              found, k + 1, width, height, r))

-----------------------------------------------------------------------------
(* Labelling of every small mask *)

MaskImages ==
    UNION {[width : {w}, height : {h}, binary : [1..(w * h) -> {0, 1}]] :
           w \in 1..MaskW, h \in 1..MaskH}

InitLabel ==
    /\ pc = "start"
    /\ image \in MaskImages
    /\ components = None
    /\ boundaries = None
    /\ arg = None
    /\ ret = None
    /\ result = None
    /\ trace = None

FindComponents ==
    /\ pc = "start"
    /\ components' = findConnectedComponents(image.binary, image.width, image.height)
    /\ pc' = "labelled"
    /\ UNCHANGED <<image, boundaries, arg, ret, result, trace>>

ExtractBoundaries ==
    /\ pc = "labelled"
    /\ boundaries' = [k \in 1..Len(components) |->
                         extractBoundary(components[k], image.width, image.height)]
    /\ pc' = "boundaries"
    /\ UNCHANGED <<image, components, arg, ret, result, trace>>

NextLabel == FindComponents \/ ExtractBoundaries

SpecLabel == InitLabel /\ [][NextLabel]_vars

-----------------------------------------------------------------------------
(* Claims about the labeller *)

Foreground == {p \in Pixels(image.width, image.height) :
                  image.binary[Idx(p, image.width)] = 1}

\* the pixels of fg joined to a pixel of S by a path of 4-adjacent pixels of fg
RECURSIVE Joined(_, _)
Joined(S, fg) ==
    LET T == S \cup {n \in fg : \E q \in S : n \in Neighbors(q)}
    IN  IF T = S THEN S ELSE Joined(T, fg)

\* C1: the components partition the foreground into its maximal 4-connected
\* sets: each foreground pixel is in exactly one component, no background
\* pixel is in any, no pixel is listed twice, and two foreground pixels share
\* a component iff a path of 4-adjacent foreground pixels joins them.
C1_ComponentsPartitionForeground ==
    pc = "labelled" =>
        LET fg == Foreground
        IN  /\ \A p \in fg :
                   Cardinality({k \in 1..Len(components) :
                                   p \in Range(components[k])}) = 1
            /\ \A k \in 1..Len(components) :
                   LET c == Range(components[k])
                   IN  /\ c \subseteq fg
                       /\ Cardinality(c) = Len(components[k])
                       /\ \A p \in c : c = Joined({p}, fg)

C1_Witness ==
    /\ pc = "labelled"
    /\ Len(components) >= 2
    /\ \E k \in 1..Len(components) : Len(components[k]) >= 3

\* C2: extractBoundary returns exactly the pixels of the component that have
\* a 4-neighbour outside the image or outside the component.
C2_BoundaryCountsImageEdge ==
    pc = "boundaries" =>
        \A k \in 1..Len(components) :
            LET c == Range(components[k])
            IN  Range(boundaries[k]) =
                    {p \in c : \E n \in Neighbors(p) :
                                  \/ ~InImage(n, image.width, image.height)
                                  \/ n \notin c}

-----------------------------------------------------------------------------
(* convexHull applied to every small point sequence *)

\* the sequences of at most n distinct elements of S
DistinctSeqs(S, n) ==
    UNION {{q \in [1..m -> S] : \A i, j \in 1..m : i # j => q[i] # q[j]} :
           m \in 0..n}

HullInputs == DistinctSeqs(Pixels(HullGrid, HullGrid), MaxHullPts)

InitHull ==
    /\ pc = "hull_call"
    /\ arg \in [points : HullInputs]
    /\ ret = None
    /\ image = None
    /\ components = None
    /\ boundaries = None
    /\ result = None
    /\ trace = None

CallConvexHull ==
    /\ pc = "hull_call"
    /\ ret' = convexHull(arg.points)
    /\ pc' = "hull_ret"
    /\ UNCHANGED <<image, components, boundaries, arg, result, trace>>

NextHull == CallConvexHull

SpecHull == InitHull /\ [][NextHull]_vars

\* p lies on the segment from a to b
OnSegment(p, a, b) ==
    /\ crossProduct(a, b, p) = 0
    /\ Min(a.x, b.x) <= p.x /\ p.x <= Max(a.x, b.x)
    /\ Min(a.y, b.y) <= p.y /\ p.y <= Max(a.y, b.y)

\* the edges of the closed polygon with the vertices poly, as index pairs
PolyNext(poly, i) == IF i = Len(poly) THEN 1 ELSE i + 1

\* the ray from p in the +x direction crosses edge a-b (p not on the edge)
RayCrosses(p, a, b) ==
    /\ (a.y > p.y) # (b.y > p.y)
    /\ (crossProduct(a, b, p) > 0) <=> (b.y > a.y)

\* p lies on the border of the polygon or in its interior (odd crossings)
OnOrInside(p, poly) ==
    \/ \E i \in 1..Len(poly) : OnSegment(p, poly[i], poly[PolyNext(poly, i)])
    \/ Cardinality({i \in 1..Len(poly) :
                       RayCrosses(p, poly[i], poly[PolyNext(poly, i)])}) % 2 = 1

\* C3: every input point lies on or inside the polygon of the returned hull.
C3_InputOnOrInsideHull ==
    pc = "hull_ret" => \A p \in Range(arg.points) : OnOrInside(p, ret)

\* C4: the hull has fewer than 3 vertices only when the input has fewer than
\* 3 points.
C4_HullAtLeastThreeVertices ==
    pc = "hull_ret" => (Len(ret) < 3 => Len(arg.points) < 3)

-----------------------------------------------------------------------------
(* classifyShape applied to measurements around every threshold *)

MaxVertices == 11

\* classifyShape reads only approx.length
ApproxOfLength(v) == [i \in 1..v |-> Pt(0, 0)]

ClassifyBoxes ==
    {[x |-> 0, y |-> 0, width |-> b[1], height |-> b[2]] :
        b \in {<<10, 10>>, <<12, 10>>, <<10, 16>>, <<16, 10>>}}

\* extent, in percent of the bounding box
ClassifyExtents == {30, 38, 40, 45, 46, 50, 55, 58, 60, 65, 70, 75, 78, 80, 85, 90, 100}

\* hulls for a bounding box at the origin: none, a ring at distance 5 from
\* (4.5, 4.5), and two with alternating distances
ClassifyHulls ==
    { <<>>,
      <<Pt(0, 3), Pt(0, 6), Pt(3, 9), Pt(6, 9), Pt(9, 6), Pt(9, 3), Pt(6, 0), Pt(3, 0)>>,
      <<Pt(4, 0), Pt(6, 3), Pt(9, 4), Pt(6, 6), Pt(5, 9), Pt(3, 6), Pt(0, 5), Pt(3, 3)>>,
      <<Pt(0, 0), Pt(5, 4), Pt(11, 0), Pt(7, 5), Pt(11, 9), Pt(5, 6), Pt(0, 9), Pt(4, 5)>> }

ClassifyPerimeters ==
    {[lo |-> p * Thousand, hi |-> p * Thousand] : p \in {0, 30, 36, 40}}
    \cup {calculatePerimeter(h) : h \in ClassifyHulls \ {<<>>}}

InitClassify ==
    /\ pc = "classify_call"
    /\ \E v \in 0..MaxVertices, bbox \in ClassifyBoxes, e \in ClassifyExtents,
          hull \in ClassifyHulls, perimeter \in ClassifyPerimeters :
          arg = [approx |-> ApproxOfLength(v), hull |-> hull, bbox |-> bbox,
                 center |-> Pt(bbox.width - 1, bbox.height - 1),
                 area |-> (e * bbox.width * bbox.height) \div 100,
                 perimeter |-> perimeter]
    /\ ret = None
    /\ image = None
    /\ components = None
    /\ boundaries = None
    /\ result = None
    /\ trace = None

CallClassifyShape ==
    /\ pc = "classify_call"
    /\ \E r \in BOOLEAN :
          ret' = classifyShape(arg.approx, arg.hull, arg.bbox, arg.center,
                               arg.area, arg.perimeter, r)
    /\ pc' = "classify_ret"
    /\ UNCHANGED <<image, components, boundaries, arg, result, trace>>

NextClassify == CallClassifyShape

SpecClassify == InitClassify /\ [][NextClassify]_vars

\* The decision table of the specification, for the measurements of `arg`:
\* the condition of rule i, and what rule i reports.  E and B are area and
\* bounding-box area (extent = E / B), W and H the sides of the bounding box
\* (aspectRatio = W / H), V the vertex count; circular and star are the
\* outcomes of the two sub-tests.
RuleHolds(i, V, E, B, W, H, circular, star) ==
    CASE i = 1 -> circular
      [] i = 2 -> V = 3
      [] i = 3 -> V = 4 /\ 100 * E > 70 * B
      [] i = 4 -> V = 4 /\ 100 * E < 60 * B
      [] i = 5 -> V = 5 /\ 100 * E > 65 * B
      [] i = 6 -> /\ V = 5 /\ 100 * E > 45 * B /\ 100 * E <= 65 * B
                  /\ 10 * W > 7 * H /\ 10 * W < 15 * H
      [] i = 7 -> V >= 8 /\ 100 * E < 50 * B /\ star
      [] i = 8 -> V >= 6 /\ V <= 7 /\ 100 * E < 38 * B /\ star
      [] i = 9 -> V = 4
      [] i = 10 -> V = 5
      [] i = 11 -> V = 6 /\ 100 * E > 50 * B
      [] i = 12 -> V >= 7 /\ 100 * E < 50 * B
      [] i = 13 -> V >= 10 /\ (100 * E < 60 * B \/ 100 * E > 80 * B)
      [] i = 14 -> V = 2 /\ 100 * E > 85 * B

\* min(0.98, 0.90 + 0.10 * circularity) in thousandths, rounded down
CircleConfidence(area, perimeter, r) ==
    LET tenth == Cardinality({c \in 1..200 :
                     ~CircularityBelow([area |-> area, perimeter |-> perimeter], 10 * c, r)})
    IN  Min(980, 900 + tenth)

RuleReports(i, E, B, area, perimeter, r) ==
    CASE i = 1 -> [type |-> "circle", confidence |-> CircleConfidence(area, perimeter, r)]
      [] i = 2 -> [type |-> "triangle", confidence |-> 920]
      [] i = 3 -> [type |-> "rectangle",
                   confidence |-> IF 100 * E > 85 * B THEN 950 ELSE 880]
      [] i = 4 -> [type |-> "triangle", confidence |-> 850]
      [] i = 5 -> [type |-> "pentagon",
                   confidence |-> IF 100 * E > 75 * B THEN 880 ELSE 800]
      [] i = 6 -> [type |-> "rectangle", confidence |-> 820]
      [] i = 7 -> [type |-> "star", confidence |-> 850]
      [] i = 8 -> [type |-> "star", confidence |-> 750]
      [] i = 9 -> [type |-> "rectangle", confidence |-> 780]
      [] i = 10 -> IF 100 * E < 55 * B THEN [type |-> "triangle", confidence |-> 700]
                   ELSE [type |-> "pentagon", confidence |-> 750]
      [] i = 11 -> [type |-> "pentagon", confidence |-> 700]
      [] i = 12 -> [type |-> "star", confidence |-> 700]
      [] i = 13 -> IF 100 * E < 60 * B THEN [type |-> "star", confidence |-> 650]
                   ELSE [type |-> "rectangle", confidence |-> 600]
      [] i = 14 -> [type |-> "rectangle", confidence |-> 700]

FirstMatchingRule(a, r) ==
    LET V == Len(a.approx)
        W == a.bbox.width
        H == a.bbox.height
        B == W * H
        E == a.area
        circular == isCircular(a.hull, a.center, a.bbox,
                               [area |-> a.area, perimeter |-> a.perimeter],
                               [num |-> E, den |-> B], [num |-> W, den |-> H], r)
        star == isStar(a.hull, a.center, V, [num |-> E, den |-> B], r)
        matching == {i \in 1..14 : RuleHolds(i, V, E, B, W, H, circular, star)}
    IN  IF matching = {} THEN None
        ELSE RuleReports(SetMin(matching), E, B, a.area, a.perimeter, r)

\* C5: classifyShape returns the type and the confidence of the first of the
\* 14 rules whose condition holds, the circle confidence being
\* min(0.98, 0.90 + 0.10 * circularity), returns no shape exactly when no rule
\* holds, and every confidence lies in [0, 1].
C5_FirstMatchingRuleWins ==
    pc = "classify_ret" =>
        /\ \E r \in BOOLEAN : ret = FirstMatchingRule(arg, r)
        /\ ret # None => (ret.confidence >= 0 /\ ret.confidence <= Thousand)

\* a star test that fails on 8 or more vertices leaves the decision to rule 12
C5_Witness ==
    /\ pc = "classify_ret"
    /\ Len(arg.approx) >= 8
    /\ Len(arg.hull) >= 8
    /\ ret = [type |-> "star", confidence |-> 700]

-----------------------------------------------------------------------------
(* detectShapes applied to drawings of one or two figures *)

Ink == [r |-> 0, g |-> 0, b |-> 0, a |-> 255]

Paper == [r |-> 255, g |-> 255, b |-> 255, a |-> 255]

\* the image with the pixels of figure in ink on paper
Drawing(figure) ==
    [width |-> ImgW, height |-> ImgH,
     data |-> [i \in 1..(ImgW * ImgH) |->
                  IF Pt((i - 1) % ImgW, (i - 1) \div ImgW) \in figure
                  THEN Ink ELSE Paper]]

Canvas == Pixels(ImgW, ImgH)

FilledRectangle(x0, y0, w, h) ==
    {p \in Canvas : p.x >= x0 /\ p.x < x0 + w /\ p.y >= y0 /\ p.y < y0 + h}

\* every filled rectangle with sides of at least MinBBoxSide - 1
Rectangles ==
    {FilledRectangle(x0, y0, w, h) :
        <<x0, y0, w, h>> \in
            {q \in (0..ImgW) \X (0..ImgH) \X ((MinBBoxSide - 1)..ImgW)
                   \X ((MinBBoxSide - 1)..ImgH) :
                q[1] + q[3] <= ImgW /\ q[2] + q[4] <= ImgH}}

\* filled right triangles with legs of s pixels
Triangles ==
    {{p \in Canvas : p.x >= q[1] /\ p.y >= q[2] /\ (p.x - q[1]) + (p.y - q[2]) < q[3]} :
        q \in {q \in (0..ImgW) \X (0..ImgH) \X (MinBBoxSide..Min(ImgW, ImgH)) :
                  q[1] + q[3] <= ImgW /\ q[2] + q[3] <= ImgH}}

\* two bars of thickness t at a right angle, in a box of side s
Angles ==
    {{p \in Canvas : p.x < q[2] /\ p.y < q[2] /\ (p.x < q[1] \/ p.y < q[1])} :
        q \in (1..3) \X (MinBBoxSide..Min(ImgW, ImgH))}

\* the whole image less a square at a corner, a wide and a narrow bar along
\* two edges of the image, a diagonal band, and a square with a bar beside it
Others ==
    {Canvas \ FilledRectangle(0, 0, n, n) : n \in 1..3}
    \cup {{p \in Canvas : p.y < 3 \/ p.x < 2}}
    \cup {{p \in Canvas : Abs(p.x - p.y) <= 2}}
    \cup {FilledRectangle(0, 0, MinBBoxSide, MinBBoxSide)
            \cup FilledRectangle(ImgW - 1, 0, 1, n) : n \in {1, 5}}

Figures == Rectangles \cup Triangles \cup Angles \cup Others

InitDetect ==
    /\ pc = "detect_call"
    /\ image \in {Drawing(figure) : figure \in Figures}
    /\ components = None
    /\ boundaries = None
    /\ arg = None
    /\ ret = None
    /\ result = None
    /\ trace = None

\* detectShapes.  trace[n] is the position in `components` of the component
\* that shapes[n] was made from.  processingTime is left out.
DetectShapes ==
    /\ pc = "detect_call"
    /\ \E binary \in {createBinaryMask(image.data, image.width, image.height)} :
       \E found \in {findConnectedComponents(binary, image.width, image.height)} :
       \E r \in BOOLEAN :
       \E out \in {AnalyzeFrom([shapes |-> <<>>, origin |-> <<>>], found, 1,
                               image.width, image.height, r)} :
          /\ components' = found
          /\ trace' = out.origin
          /\ result' = [shapes |-> out.shapes,
                        imageWidth |-> image.width,
                        imageHeight |-> image.height]
    /\ pc' = "detected"
    /\ UNCHANGED <<image, boundaries, arg, ret>>

NextDetect == DetectShapes

SpecDetect == InitDetect /\ [][NextDetect]_vars

-----------------------------------------------------------------------------
(* Claims about detectShapes *)

\* the foreground of the image
Drawn ==
    {p \in Pixels(image.width, image.height) :
        createBinaryMask(image.data, image.width, image.height)[Idx(p, image.width)] = 1}

\* the sides of the integer envelope of a set of pixels
SpanX(S) == SetMax({p.x : p \in S}) - SetMin({p.x : p \in S}) + 1

SpanY(S) == SetMax({p.y : p \in S}) - SetMin({p.y : p \in S}) + 1

\* S is one axis-aligned filled rectangle of at least 10 x 10 pixels
IsLargeFilledRectangle(S) ==
    /\ S # {}
    /\ Cardinality(S) = SpanX(S) * SpanY(S)
    /\ SpanX(S) >= 10
    /\ SpanY(S) >= 10

\* C6: an image whose only foreground is one axis-aligned filled rectangle of
\* at least 10 x 10 pixels yields exactly one shape, a rectangle with
\* confidence at least 0.90.
C6_FilledRectangleReported ==
    (pc = "detected" /\ IsLargeFilledRectangle(Drawn)) =>
        /\ Len(result.shapes) = 1
        /\ result.shapes[1].type = "rectangle"
        /\ result.shapes[1].confidence >= 900

\* the component that shapes[n] was made from
Origin(n) == components[trace[n]]

\* C7: every reported shape comes from a component of at least 50 pixels,
\* with a bounding box at least 10 wide and 10 high and at least 8 boundary
\* pixels; a component that fails one of the tests is the origin of no shape.
C7_ReportedShapesPassTheFilters ==
    pc = "detected" =>
        /\ Len(trace) = Len(result.shapes)
        /\ \A n \in 1..Len(trace) : result.shapes[n] # None
        /\ \A k \in 1..Len(components) :
              (\/ Len(components[k]) < 50
               \/ SpanX(Range(components[k])) < 10
               \/ SpanY(Range(components[k])) < 10
               \/ Len(extractBoundary(components[k], image.width, image.height)) < 8)
              => k \notin Range(trace)

\* a square is reported while the bar beside it is dropped
C7_Witness ==
    /\ pc = "detected"
    /\ Len(components) = 2
    /\ Len(result.shapes) = 1
    /\ trace = <<1>>

\* C8: center is the midpoint of the reported boundingBox,
\* center.x = x + width / 2 and center.y = y + height / 2 (center is kept in
\* half pixels).
C8_CenterIsBoxMidpoint ==
    pc = "detected" =>
        \A n \in 1..Len(result.shapes) :
            LET shape == result.shapes[n]
                box == shape.boundingBox
            IN  /\ box.x = SetMin({p.x : p \in Range(Origin(n))})
                /\ box.y = SetMin({p.y : p \in Range(Origin(n))})
                /\ box.width = SpanX(Range(Origin(n)))
                /\ box.height = SpanY(Range(Origin(n)))
                /\ shape.center.x = 2 * box.x + box.width
                /\ shape.center.y = 2 * box.y + box.height

\* C9: the area of a reported shape is the number of pixels of the component
\* it came from, whichever contour and whichever retry classified it.
C9_AreaIsPixelCount ==
    pc = "detected" =>
        \A n \in 1..Len(result.shapes) :
            result.shapes[n].area = Cardinality(Range(Origin(n)))

\* a shape whose component does not fill its bounding box is reported
C9_Witness ==
    /\ pc = "detected"
    /\ Len(result.shapes) = 1
    /\ result.shapes[1].area
         < result.shapes[1].boundingBox.width * result.shapes[1].boundingBox.height

\* C12: with perimeter 0 the circle rule is skipped: the result is never
\* circle, and it is what the rules after the circle rule give.
C12_ZeroPerimeterSkipsCircle ==
    (pc = "classify_ret" /\ arg.perimeter.hi = 0) =>
        /\ ret # None => ret.type # "circle"
        /\ LET V == Len(arg.approx)
               W == arg.bbox.width
               H == arg.bbox.height
               star == isStar(arg.hull, arg.center, V,
                              [num |-> arg.area, den |-> W * H], TRUE)
               matching == {i \in 2..14 :
                               RuleHolds(i, V, arg.area, W * H, W, H, FALSE, star)}
           IN  ret = IF matching = {} THEN None
                     ELSE RuleReports(SetMin(matching), arg.area, W * H,
                                      arg.area, arg.perimeter, TRUE)

-----------------------------------------------------------------------------
(* douglasPeucker applied to every small point sequence *)

DPInputs == UNION {[1..m -> Pixels(DPGridW, DPGridH)] : m \in 0..MaxDPPts}

DPEpsilons == {EpsExact(0), EpsExact(1), EpsInfinity}

InitDP ==
    /\ pc = "dp_call"
    /\ arg \in [points : DPInputs, epsilon : DPEpsilons]
    /\ ret = None
    /\ image = None
    /\ components = None
    /\ boundaries = None
    /\ result = None
    /\ trace = None

CallDouglasPeucker ==
    /\ pc = "dp_call"
    /\ \E r \in BOOLEAN : ret' = douglasPeucker(arg.points, arg.epsilon, r)
    /\ pc' = "dp_ret"
    /\ UNCHANGED <<image, components, boundaries, arg, result, trace>>

NextDP == CallDouglasPeucker

SpecDP == InitDP /\ [][NextDP]_vars

\* the entries of s at the positions K, in order
Restrict(s, K) ==
    LET pos(i) == Cardinality({j \in K : j <= i})
    IN  [k \in 1..Cardinality(K) |-> s[CHOOSE i \in K : pos(i) = k]]

\* the points s[i..j] lie on one line
CollinearRun(s, i, j) ==
    \A a, b, c \in i..j : crossProduct(s[a], s[b], s[c]) = 0

\* out is s with runs of collinear points collapsed: out keeps the first and
\* the last entry of s, and between two consecutive kept entries every entry
\* of s is on one line with them
CollapsesCollinearRuns(s, out) ==
    \E K \in SUBSET (1..Len(s)) :
        /\ out = Restrict(s, K)
        /\ Len(s) > 0 => (1 \in K /\ Len(s) \in K)
        /\ \A i, j \in K :
               (i < j /\ \A m \in K : ~(i < m /\ m < j)) => CollinearRun(s, i, j)

\* C10: douglasPeucker(points, 0) removes a point only if it is exactly
\* collinear with the points around it, also when the first and the last
\* point coincide or points repeat.
C10_ZeroToleranceKeepsCorners ==
    (pc = "dp_ret" /\ arg.epsilon = EpsExact(0)) =>
        CollapsesCollinearRuns(arg.points, ret)

\* C11 as stated: for any point sequence douglasPeucker(points, Infinity) is
\* the two-element sequence [first point, last point].
C11_InfiniteToleranceAnySequence ==
    (pc = "dp_ret" /\ arg.epsilon = EpsInfinity) =>
        /\ Len(ret) = 2
        /\ Len(arg.points) > 0 => ret = <<arg.points[1], Last(arg.points)>>

\* C11 amended: for any sequence of at least two points
\* douglasPeucker(points, Infinity) is [first point, last point]; a shorter
\* sequence is returned unchanged.
C11_InfiniteToleranceKeepsEndpoints ==
    (pc = "dp_ret" /\ arg.epsilon = EpsInfinity) =>
        IF Len(arg.points) >= 2
        THEN ret = <<arg.points[1], Last(arg.points)>>
        ELSE ret = arg.points

\* a corner between the endpoints is dropped
C11_Witness ==
    /\ pc = "dp_ret"
    /\ arg.epsilon = EpsInfinity
    /\ Len(arg.points) >= 3
    /\ \E i \in 2..(Len(arg.points) - 1) :
           crossProduct(arg.points[1], Last(arg.points), arg.points[i]) # 0
    /\ ret = <<arg.points[1], Last(arg.points)>>

-----------------------------------------------------------------------------
(* The contour selection and approximation of analyzeComponent, applied to
   the components of drawings *)

\* the pixels within a distance of the point (c / 2, c / 2); d is four times
\* the square of the distance
Disc(c, d) ==
    {p \in Canvas : (2 * p.x - c) * (2 * p.x - c) + (2 * p.y - c) * (2 * p.y - c) <= d}

Discs == {Disc(9, d) : d \in {82, 100, 130}}

\* a filled rectangle with n pinholes on a slanted line
Pierced(x0, y0, w, h, n, dx) ==
    FilledRectangle(x0, y0, w, h) \ {Pt(x0 + 1 + dx * i, y0 + 2 + 2 * i) : i \in 0..(n - 1)}

PiercedRectangles ==
    {Pierced(q[1], q[2], q[3], q[4], q[5], q[6]) :
        q \in {<<1, 0, 11, 10, 3, 3>>, <<1, 0, 11, 11, 2, 3>>, <<0, 0, 12, 10, 4, 2>>,
               <<0, 1, 10, 10, 1, 1>>, <<0, 1, 11, 10, 3, 3>>, <<0, 0, 10, 10, 1, 1>>}}

ContourFigures == Figures \cup Discs \cup PiercedRectangles

\* analyzeComponent up to the final approximation: None where it returns
\* null before, else what it has computed when it calls classifyShape
ContourStage(component, width, height, r) ==
    With(BoundingBox(component, width, height), LAMBDA bbox :
    IF TooSmall(bbox) THEN None
    ELSE
    With(extractBoundary(component, width, height), LAMBDA boundary :
    IF Len(boundary) < MinBoundaryPoints THEN None
    ELSE
    With(convexHull(boundary), LAMBDA hull :
    LET extent == [num |-> PixelArea(component), den |-> bbox.width * bbox.height]
    IN
    With(ContourToUse(boundary, hull, extent), LAMBDA contourToUse :
    With(calculatePerimeter(contourToUse), LAMBDA perimeter :
    With(Approximate(contourToUse, perimeter, extent, r), LAMBDA approx :
        [boundary |-> boundary,
         hull |-> hull,
         extent |-> extent,
         contourToUse |-> contourToUse,
         perimeter |-> perimeter,
         approx |-> approx,
         r |-> r]))))))

InitContour ==
    /\ pc = "contour_call"
    /\ image \in {Drawing(figure) : figure \in ContourFigures}
    /\ components = None
    /\ boundaries = None
    /\ arg = None
    /\ ret = None
    /\ result = None
    /\ trace = None

\* detectShapes as far as the final approximation of each component;
\* ret[k] is None for a component dropped before
SelectContours ==
    /\ pc = "contour_call"
    /\ \E binary \in {createBinaryMask(image.data, image.width, image.height)} :
       \E found \in {findConnectedComponents(binary, image.width, image.height)} :
       \E r \in BOOLEAN :
          /\ components' = found
          /\ ret' = [k \in 1..Len(found) |->
                        IF IsNoise(found[k]) THEN None
                        ELSE ContourStage(found[k], image.width, image.height, r)]
    /\ pc' = "contours"
    /\ UNCHANGED <<image, boundaries, arg, result, trace>>

NextContour == SelectContours

SpecContour == InitContour /\ [][NextContour]_vars

\* the components that reached the approximation
Staged == IF pc = "contours" THEN {k \in 1..Len(ret) : ret[k] # None} ELSE {}

\* the simplification with tolerance 0.01 * perimeter
FirstApprox(s) == douglasPeucker(s.contourToUse, EpsOfPerimeter(10, s.perimeter), s.r)

\* the simplification with tolerance 0.03 * perimeter
CoarserApprox(s) == douglasPeucker(s.contourToUse, EpsOfPerimeter(30, s.perimeter), s.r)

\* the finer retry and the sampling fallback applied to an earlier result
Refined(s, earlier) ==
    LET finer == IF Len(earlier) < 4 /\ Above(s.extent, 80)
                 THEN douglasPeucker(s.contourToUse, EpsOfPerimeter(5, s.perimeter), s.r)
                 ELSE earlier
    IN  IF Len(finer) < 4 /\ Above(s.extent, 80)
        THEN samplePoints(s.contourToUse, Min(Len(s.contourToUse), 12))
        ELSE finer

\* the coarser retry applied to an earlier result
Coarsened(s, earlier) ==
    IF Len(earlier) > 12 /\ ~(Above(s.extent, 80) /\ Len(earlier) < 20)
    THEN IF Len(CoarserApprox(s)) >= 4 THEN CoarserApprox(s) ELSE earlier
    ELSE earlier

\* the hull contour was selected (branch 3)
HullSelected(s) ==
    ~Below(s.extent, 40) /\ ~(Len(s.hull) < 4 /\ Above(s.extent, 80))

\* C13 as stated: the finer retry and the sampling fallback are applied only
\* when the hull contour was selected; when the boundary was selected the
\* polygon is the 0.01 * perimeter simplification, or its coarser retry,
\* never a refinement.
C13_RefinementOnlyForHull ==
    \A k \in Staged :
        LET s == ret[k]
        IN  IF HullSelected(s)
            THEN s.approx \in {Refined(s, FirstApprox(s)), CoarserApprox(s)}
            ELSE IF Below(s.extent, 40)
            THEN s.approx = FirstApprox(s)
            ELSE s.approx \in {FirstApprox(s), CoarserApprox(s)}

\* C13 amended: the finer retry and the sampling fallback are applied
\* whenever extent >= 0.40, with the hull or with the boundary selected
\* because the hull has fewer than 4 points and extent > 0.80; only with
\* extent < 0.40 is the polygon the single 0.01 * perimeter simplification.
C13_RefinementUnlessVeryConcave ==
    \A k \in Staged :
        LET s == ret[k]
        IN  IF Below(s.extent, 40)
            THEN s.approx = FirstApprox(s)
            ELSE s.approx \in {Refined(s, FirstApprox(s)), CoarserApprox(s)}

\* the hull was selected and the finer retry replaced a simplification of
\* fewer than 4 vertices
C13_Witness ==
    \E k \in Staged :
        /\ HullSelected(ret[k])
        /\ Len(FirstApprox(ret[k])) < 4
        /\ Len(ret[k].approx) >= 4
        /\ ret[k].approx = Refined(ret[k], FirstApprox(ret[k]))

-----------------------------------------------------------------------------
(* detectShapes called again and again, by two detectors, on two buffers *)

MaxCalls == 3

Detectors == {"detector1", "detector2"}

\* a square with a bar beside it, and a triangle
RepeatFigures ==
    {FilledRectangle(0, 0, MinBBoxSide, MinBBoxSide) \cup FilledRectangle(ImgW - 1, 0, 1, 5),
     {p \in Canvas : p.x + p.y < MinBBoxSide}}

\* `const shapes: DetectedShape[] = []` of a call that kept the list of the
\* call before
KeptShapes == IF result = None THEN <<>> ELSE result.shapes

\* `const shapes: DetectedShape[] = []`
NewShapes == <<>>

\* image[b] is the buffer b; arg.rounding is how the undecided floating-point
\* comparisons come out, the same in every call
InitRepeat ==
    /\ pc = "idle"
    /\ image \in [1..2 -> {Drawing(figure) : figure \in RepeatFigures}]
    /\ arg \in [rounding : BOOLEAN]
    /\ components = None
    /\ boundaries = None
    /\ ret = None
    /\ result = None
    /\ trace = <<>>

\* one call of detectShapes, by detector d on buffer b; trace is the log of
\* the calls, each with the content of its buffer when it was called
DetectAgain ==
    /\ pc = "idle"
    /\ Len(trace) < MaxCalls
    /\ \E b \in DOMAIN image :
       \E d \in Detectors :
       \E binary \in {createBinaryMask(image[b].data, image[b].width, image[b].height)} :
       \E found \in {findConnectedComponents(binary, image[b].width, image[b].height)} :
       \E out \in {AnalyzeFrom([shapes |-> NewShapes, origin |-> <<>>], found, 1,
                               image[b].width, image[b].height, arg.rounding)} :
       \E answer \in {[shapes |-> out.shapes,
                       imageWidth |-> image[b].width,
                       imageHeight |-> image[b].height]} :
          /\ components' = found
          /\ result' = answer
          /\ trace' = Append(trace, [buffer |-> b, detector |-> d,
                                     data |-> image[b].data, result |-> answer])
    /\ UNCHANGED <<pc, image, boundaries, arg, ret>>

NextRepeat == DetectAgain

SpecRepeat == InitRepeat /\ [][NextRepeat]_vars

-----------------------------------------------------------------------------
(* detectShapes applied to drawings of two figures side by side *)

\* the image of twice the width of Canvas with the pixels of figure in ink
PairDrawing(figure) ==
    [width |-> 2 * ImgW, height |-> ImgH,
     data |-> [i \in 1..(2 * ImgW * ImgH) |->
                  IF Pt((i - 1) % (2 * ImgW), (i - 1) \div (2 * ImgW)) \in figure
                  THEN Ink ELSE Paper]]

\* figures that leave the last column of Canvas free: squares, a rectangle
\* too narrow to be reported, two bars at a right angle, a triangle, a bar,
\* or nothing
Parts ==
    {FilledRectangle(1, 1, MinBBoxSide, MinBBoxSide),
     FilledRectangle(0, 0, MinBBoxSide, MinBBoxSide),
     FilledRectangle(1, 1, MinBBoxSide - 1, MinBBoxSide),
     {p \in FilledRectangle(0, 0, MinBBoxSide, MinBBoxSide) : p.x < 3 \/ p.y < 3},
     {p \in Canvas : p.x + p.y < MinBBoxSide},
     FilledRectangle(0, 0, 1, 5),
     {}}

\* one part on the left half of the image and one on the right half
PairFigures ==
    {left \cup {Pt(p.x + ImgW, p.y) : p \in right} : left \in Parts, right \in Parts}

InitPair ==
    /\ pc = "pair_call"
    /\ image \in {PairDrawing(figure) : figure \in PairFigures}
    /\ arg \in [rounding : BOOLEAN]
    /\ components = None
    /\ boundaries = None
    /\ ret = None
    /\ result = None
    /\ trace = None

\* detectShapes, as DetectShapes, with the undecided comparisons coming out
\* as arg.rounding
DetectPair ==
    /\ pc = "pair_call"
    /\ \E binary \in {createBinaryMask(image.data, image.width, image.height)} :
       \E found \in {findConnectedComponents(binary, image.width, image.height)} :
       \E out \in {AnalyzeFrom([shapes |-> <<>>, origin |-> <<>>], found, 1,
                               image.width, image.height, arg.rounding)} :
          /\ components' = found
          /\ trace' = out.origin
          /\ result' = [shapes |-> out.shapes,
                        imageWidth |-> image.width,
                        imageHeight |-> image.height]
    /\ pc' = "pair_detected"
    /\ UNCHANGED <<image, boundaries, arg, ret>>

NextPair == DetectPair

SpecPair == InitPair /\ [][NextPair]_vars

\* what detectShapes reports for component k: its shape, or None
Outcome(k) ==
    IF \E n \in 1..Len(trace) : trace[n] = k
    THEN result.shapes[CHOOSE n \in 1..Len(trace) : trace[n] = k]
    ELSE None

\* what detectShapes reports for an image of the same size with the pixels
\* of component k and nothing else
Alone(k) ==
    LET lone == PairDrawing(Range(components[k]))
        binary == createBinaryMask(lone.data, lone.width, lone.height)
        found == findConnectedComponents(binary, lone.width, lone.height)
        out == AnalyzeFrom([shapes |-> <<>>, origin |-> <<>>], found, 1,
                           lone.width, lone.height, arg.rounding)
    IN  IF out.shapes = <<>> THEN None ELSE out.shapes[1]

\* C15: what is reported for a component is what is reported for it in an
\* image with no other component, and a component that is dropped does not
\* keep the components after it from being reported.
C15_ComponentsAnalyzedIndependently ==
    pc = "pair_detected" =>
        /\ \A k \in 1..Len(components) : Outcome(k) = Alone(k)
        /\ Len(result.shapes) = Cardinality({k \in 1..Len(components) : Alone(k) # None})

\* the first component is dropped and the second is reported
C15_Witness ==
    /\ pc = "pair_detected"
    /\ Len(components) = 2
    /\ Len(components[1]) >= MinComponentPixels
    /\ trace = <<2>>
    /\ Alone(2) # None

\* the place in row-major order of the first pixel of a component
FirstPixel(component) == SetMin({Idx(p, image.width) : p \in Range(component)})

\* the shape has the bounding box and the area of the component
MadeFrom(shape, component) ==
    /\ shape.boundingBox.x = SetMin({p.x : p \in Range(component)})
    /\ shape.boundingBox.y = SetMin({p.y : p \in Range(component)})
    /\ shape.boundingBox.width = SpanX(Range(component))
    /\ shape.boundingBox.height = SpanY(Range(component))
    /\ shape.area = Len(component)

\* C16: the components are listed in the order of their first pixels in
\* row-major order, and the shapes are listed in the order of the components
\* they were made from.
C16_DiscoveryOrder ==
    pc = "pair_detected" =>
        /\ \A j, k \in 1..Len(components) :
               j < k => FirstPixel(components[j]) < FirstPixel(components[k])
        /\ \A n \in 1..Len(result.shapes) :
               \E k \in 1..Len(components) : MadeFrom(result.shapes[n], components[k])
        /\ \A m, n \in 1..Len(result.shapes) :
               m < n => \E j, k \in 1..Len(components) :
                            /\ j < k
                            /\ MadeFrom(result.shapes[m], components[j])
                            /\ MadeFrom(result.shapes[n], components[k])

\* two shapes are reported, the one on the right first because it reaches
\* the top row
C16_Witness ==
    /\ pc = "pair_detected"
    /\ Len(result.shapes) = 2
    /\ result.shapes[1].boundingBox.x > result.shapes[2].boundingBox.x
    /\ result.shapes[1].boundingBox.y < result.shapes[2].boundingBox.y

-----------------------------------------------------------------------------
(* detectShapes applied to drawings in two colours *)

\* colours at both sides of the two thresholds of createBinaryMask
Colours ==
    {Ink, Paper,
     [r |-> 0, g |-> 0, b |-> 0, a |-> 200],
     [r |-> 0, g |-> 0, b |-> 0, a |-> 201],
     [r |-> 128, g |-> 128, b |-> 127, a |-> 201],
     [r |-> 128, g |-> 128, b |-> 128, a |-> 201],
     [r |-> 255, g |-> 128, b |-> 0, a |-> 255],
     [r |-> 255, g |-> 129, b |-> 0, a |-> 255]}

\* the image with the pixels of figure in one colour, the others in another
Painting(figure, colour, ground) ==
    [width |-> ImgW, height |-> ImgH,
     data |-> [i \in 1..(ImgW * ImgH) |->
                  IF Pt((i - 1) % ImgW, (i - 1) \div ImgW) \in figure
                  THEN colour ELSE ground]]

\* a square, and two bars at a right angle
PaintedFigures ==
    {FilledRectangle(0, 0, MinBBoxSide, MinBBoxSide),
     {p \in FilledRectangle(0, 0, MinBBoxSide, MinBBoxSide) : p.x < 3 \/ p.y < 3}}

InitMask ==
    /\ pc = "mask_call"
    /\ image \in {Painting(figure, colour, ground) :
                     figure \in PaintedFigures, colour \in Colours, ground \in Colours}
    /\ components = None
    /\ boundaries = None
    /\ arg = None
    /\ ret = None
    /\ result = None
    /\ trace = None

\* detectShapes; ret is the mask that createBinaryMask returned
DetectPainted ==
    /\ pc = "mask_call"
    /\ \E binary \in {createBinaryMask(image.data, image.width, image.height)} :
       \E found \in {findConnectedComponents(binary, image.width, image.height)} :
       \E r \in BOOLEAN :
       \E out \in {AnalyzeFrom([shapes |-> <<>>, origin |-> <<>>], found, 1,
                               image.width, image.height, r)} :
          /\ ret' = binary
          /\ components' = found
          /\ trace' = out.origin
          /\ result' = [shapes |-> out.shapes,
                        imageWidth |-> image.width,
                        imageHeight |-> image.height]
    /\ pc' = "masked"
    /\ UNCHANGED <<image, boundaries, arg>>

NextMask == DetectPainted

SpecMask == InitMask /\ [][NextMask]_vars

\* alpha above 200 and the mean of R, G and B below 128
IsDarkOpaque(pixel) ==
    /\ pixel.a > 200
    /\ pixel.r + pixel.g + pixel.b < 384

C18_ContourSelection ==
    \A k \in Staged :
        LET s == ret[k]
            area == Len(components[k])
            box == SpanX(Range(components[k])) * SpanY(Range(components[k]))
            boundary == extractBoundary(components[k], image.width, image.height)
            hull == convexHull(boundary)
            selected == IF 100 * area < 40 * box THEN boundary
                        ELSE IF Len(hull) < 4 /\ 100 * area > 80 * box THEN boundary
                        ELSE hull
        IN  /\ s.contourToUse = selected
            /\ s.perimeter = calculatePerimeter(selected)
            /\ Range(s.approx) \subseteq Range(selected)
            /\ s.hull = hull

\* the boundary is selected because the hull has fewer than 4 points
C18_Witness ==
    \E k \in Staged :
        /\ Len(ret[k].hull) < 4
        /\ Above(ret[k].extent, 80)
        /\ ret[k].contourToUse = ret[k].boundary
        /\ ret[k].contourToUse # ret[k].hull

\* the result before the coarser retry
Earlier(s) ==
    IF Below(s.extent, 40) THEN FirstApprox(s) ELSE Refined(s, FirstApprox(s))

\* C19 as stated: whichever contour was selected, with more than 12
\* vertices, unless extent > 0.80 and fewer than 20, the contour is
\* simplified again with 0.03 * perimeter and the coarser result is final if
\* it has at least 4 vertices; else the earlier result is final.
C19_CoarserRetryWhicheverContour ==
    \A k \in Staged : ret[k].approx = Coarsened(ret[k], Earlier(ret[k]))

\* C19 amended: the coarser retry is made only with extent >= 0.40; with
\* extent < 0.40 the 0.01 * perimeter simplification of the boundary is
\* final however many vertices it has.
C19_CoarserRetryUnlessVeryConcave ==
    \A k \in Staged :
        ret[k].approx = IF Below(ret[k].extent, 40)
                        THEN FirstApprox(ret[k])
                        ELSE Coarsened(ret[k], Earlier(ret[k]))

\* the coarser result replaces an earlier result of more than 12 vertices
C19_Witness ==
    \E k \in Staged :
        /\ ~Below(ret[k].extent, 40)
        /\ Len(Earlier(ret[k])) > 12
        /\ Len(ret[k].approx) >= 4
        /\ ret[k].approx = CoarserApprox(ret[k])
        /\ ret[k].approx # Earlier(ret[k])

-----------------------------------------------------------------------------
(* findConnectedComponents and floodFill, one loop iteration at a time *)

FloodW == 3
FloodH == 2

FloodImages ==
    UNION {[width : {w}, height : {h}, binary : [1..(w * h) -> {0, 1}]] :
           w \in 1..FloodW, h \in 1..FloodH}

\* arg.idx is the pixel the double loop is at (from 1), arg.start the start
\* pixel of the call of floodFill; ret holds stack, labeled and component;
\* trace counts the pushes after the first one and the pops of the call
InitFlood ==
    /\ pc = "scan"
    /\ image \in FloodImages
    /\ arg = [idx |-> 1, start |-> None]
    /\ ret = [stack |-> <<>>,
              labeled |-> [i \in 1..(image.width * image.height) |-> 0],
              component |-> <<>>]
    /\ components = <<>>
    /\ trace = [pushes |-> 0, pops |-> 0]
    /\ boundaries = None
    /\ result = None

\* the double loop passes a pixel that is background or labelled
SkipPixel ==
    /\ pc = "scan"
    /\ arg.idx <= image.width * image.height
    /\ ~(image.binary[arg.idx] = 1 /\ ret.labeled[arg.idx] = 0)
    /\ arg' = [arg EXCEPT !.idx = arg.idx + 1]
    /\ UNCHANGED <<pc, image, components, boundaries, ret, result, trace>>

\* the double loop calls floodFill at an unlabelled foreground pixel
CallFloodFill ==
    /\ pc = "scan"
    /\ arg.idx <= image.width * image.height
    /\ image.binary[arg.idx] = 1 /\ ret.labeled[arg.idx] = 0
    /\ arg' = [arg EXCEPT !.start = Pt((arg.idx - 1) % image.width,
                                       (arg.idx - 1) \div image.width)]
    /\ ret' = [stack |-> <<arg'.start>>, labeled |-> ret.labeled, component |-> <<>>]
    /\ trace' = [pushes |-> 0, pops |-> 0]
    /\ pc' = "fill"
    /\ UNCHANGED <<image, components, boundaries, result>>

\* one iteration of the while loop of floodFill
FloodIteration ==
    /\ pc = "fill"
    /\ ret.stack # <<>>
    /\ ret' = FloodStep(ret, image.binary, image.width, image.height)
    /\ trace' = [pushes |-> trace.pushes + (Len(ret'.stack) + 1 - Len(ret.stack)),
                 pops |-> trace.pops + 1]
    /\ UNCHANGED <<pc, image, components, boundaries, arg, result>>

\* floodFill returns and the double loop goes on
ReturnFromFloodFill ==
    /\ pc = "fill"
    /\ ret.stack = <<>>
    /\ components' = IF Len(ret.component) > 0
                     THEN Append(components, ret.component)
                     ELSE components
    /\ arg' = [arg EXCEPT !.idx = arg.idx + 1]
    /\ pc' = "scan"
    /\ UNCHANGED <<image, boundaries, ret, result, trace>>

\* findConnectedComponents returns
ReturnComponents ==
    /\ pc = "scan"
    /\ arg.idx > image.width * image.height
    /\ pc' = "scanned"
    /\ UNCHANGED <<image, components, boundaries, arg, ret, result, trace>>

NextFlood ==
    \/ SkipPixel
    \/ CallFloodFill
    \/ FloodIteration
    \/ ReturnFromFloodFill
    \/ ReturnComponents

SpecFlood == InitFlood /\ [][NextFlood]_vars

\* every loop iteration that can be made is made
SpecFloodFair == SpecFlood /\ WF_vars(NextFlood)

\* C20, in the states of a call of floodFill: no pixel is in the component
\* twice, the pixels of the component are labelled, 4 entries were pushed for
\* each of them, each iteration popped one entry, so that there are at most
\* 4 * width * height + 1 iterations, and with the stack empty the component
\* is the set of foreground pixels joined to the start pixel.
FloodFillInvariant ==
    pc = "fill" =>
        /\ Cardinality(Range(ret.component)) = Len(ret.component)
        /\ \A p \in Range(ret.component) :
               /\ InImage(p, image.width, image.height)
               /\ ret.labeled[Idx(p, image.width)] = 1
        /\ trace.pushes = 4 * Len(ret.component)
        /\ trace.pops + Len(ret.stack) = 1 + trace.pushes
        /\ trace.pops <= 4 * image.width * image.height + 1
        /\ ret.stack = <<>> =>
               Range(ret.component) = Joined({arg.start}, Foreground)

\* C20: floodFill keeps FloodFillInvariant and each of its calls returns.
C20_FloodFillTerminates ==
    /\ []FloodFillInvariant
    /\ (pc = "fill") ~> (pc = "scan")

\* floodFill has collected an image of 6 pixels that is all foreground
C20_Witness ==
    /\ pc = "fill"
    /\ ret.stack = <<>>
    /\ Len(ret.component) = image.width * image.height
    /\ Len(ret.component) >= 6
    /\ trace.pops = 4 * Len(ret.component) + 1

-----------------------------------------------------------------------------
(* douglasPeucker, one call and one return at a time *)

StepGrid == 2
MaxStepPts == 4

StepInputs == UNION {[1..m -> Pixels(StepGrid, StepGrid)] : m \in 0..MaxStepPts}

StepEpsilons == {EpsExact(0), EpsExact(1)}

\* `left.concat(right)`, the point at index kept twice
JoinWhole(left, right) == left \o right

\* `left.slice(0, -1).concat(right)`
JoinSlices(left, right) == Front(left) \o right

\* a call of douglasPeucker that has not run yet
Frame(points) == [points |-> points, at |-> "call", index |-> 0, left |-> None]

\* trace is the call stack, the running call last; result is the value that
\* the call which has just returned hands to its caller
InitSteps ==
    /\ pc = "dp_run"
    /\ arg \in [points : StepInputs, epsilon : StepEpsilons]
    /\ trace = <<Frame(arg.points)>>
    /\ result = None
    /\ ret = None
    /\ image = None
    /\ components = None
    /\ boundaries = None

\* `if (points.length < 3) return points`
ReturnShort ==
    /\ pc = "dp_run"
    /\ result = None
    /\ Last(trace).at = "call"
    /\ Len(Last(trace).points) < 3
    /\ result' = [value |-> Last(trace).points]
    /\ trace' = Front(trace)
    /\ UNCHANGED <<pc, image, components, boundaries, arg, ret>>

\* the loop finds maxDist > epsilon and the call for the left slice is made
CallLeft ==
    /\ pc = "dp_run"
    /\ result = None
    /\ Last(trace).at = "call"
    /\ Len(Last(trace).points) >= 3
    /\ \E far \in {FarthestPoint(Last(trace).points)} :
       \E r \in BOOLEAN :
          /\ ExceedsEpsilon(far.maxNum, far.den2, arg.epsilon, r)
          /\ trace' = Front(trace)
                      \o <<[Last(trace) EXCEPT !.at = "left", !.index = far.index],
                           Frame(SubSeq(Last(trace).points, 1, far.index))>>
    /\ UNCHANGED <<pc, image, components, boundaries, arg, ret, result>>

\* the loop finds no maxDist > epsilon: `return [points[0], points[end]]`
ReturnEnds ==
    /\ pc = "dp_run"
    /\ result = None
    /\ Last(trace).at = "call"
    /\ Len(Last(trace).points) >= 3
    /\ \E far \in {FarthestPoint(Last(trace).points)} :
       \E r \in BOOLEAN :
          ~ExceedsEpsilon(far.maxNum, far.den2, arg.epsilon, r)
    /\ result' = [value |-> <<Last(trace).points[1],
                              Last(trace).points[Len(Last(trace).points)]>>]
    /\ trace' = Front(trace)
    /\ UNCHANGED <<pc, image, components, boundaries, arg, ret>>

\* the call for the left slice has returned and the call for the right slice
\* is made
CallRight ==
    /\ pc = "dp_run"
    /\ result # None
    /\ trace # <<>>
    /\ Last(trace).at = "left"
    /\ trace' = Front(trace)
                \o <<[Last(trace) EXCEPT !.at = "right", !.left = result.value],
                     Frame(SubSeq(Last(trace).points, Last(trace).index,
                                  Len(Last(trace).points)))>>
    /\ result' = None
    /\ UNCHANGED <<pc, image, components, boundaries, arg, ret>>

\* the call for the right slice has returned:
\* `return left.slice(0, -1).concat(right)`
ReturnJoined ==
    /\ pc = "dp_run"
    /\ result # None
    /\ trace # <<>>
    /\ Last(trace).at = "right"
    /\ result' = [value |-> JoinSlices(Last(trace).left, result.value)]
    /\ trace' = Front(trace)
    /\ UNCHANGED <<pc, image, components, boundaries, arg, ret>>

\* the first call has returned
ReturnToCaller ==
    /\ pc = "dp_run"
    /\ result # None
    /\ trace = <<>>
    /\ ret' = result.value
    /\ result' = None
    /\ pc' = "dp_done"
    /\ UNCHANGED <<image, components, boundaries, arg, trace>>

NextSteps ==
    \/ ReturnShort
    \/ CallLeft
    \/ ReturnEnds
    \/ CallRight
    \/ ReturnJoined
    \/ ReturnToCaller

SpecSteps == InitSteps /\ [][NextSteps]_vars

\* the most steps a call with n points takes until it has returned: 1 if it
\* returns at once, else 3 and the steps of the calls for the two slices,
\* which have n + 1 points together
StepsOfCall(n) == IF n < 3 THEN 1 ELSE 4 * n - 7

\* the most steps that the call of a frame still takes, the calls it has
\* made not counted
StepsLeft(frame) ==
    IF frame.at = "call" THEN StepsOfCall(Len(frame.points))
    ELSE IF frame.at = "left"
    THEN 2 + StepsOfCall(Len(frame.points) - frame.index + 1)
    ELSE 1

RECURSIVE StepsLeftFrom(_)
StepsLeftFrom(d) == IF d > Len(trace) THEN 0 ELSE StepsLeft(trace[d]) + StepsLeftFrom(d + 1)

\* the most steps until douglasPeucker has returned to its caller
StepsToGo == (IF pc = "dp_run" THEN 1 ELSE 0) + StepsLeftFrom(1)

\* while douglasPeucker runs, each call on the stack has at least 2 points
\* and fewer than its caller, and there is a call to run or a value to hand
\* back; when it has returned, the result of an input of at least 2 points
\* has at least 2 points, is the input at an increasing choice of positions
\* with the first and the last among them, and is the input itself for an
\* input of 2 points
StepsInvariant ==
    /\ pc = "dp_run" =>
           /\ \A d \in 2..Len(trace) :
                  /\ Len(trace[d].points) >= 2
                  /\ Len(trace[d].points) < Len(trace[d - 1].points)
           /\ \A d \in 1..(Len(trace) - 1) : trace[d].at \in {"left", "right"}
           /\ IF result = None
              THEN trace # <<>> /\ Last(trace).at = "call"
              ELSE trace = <<>> \/ Last(trace).at \in {"left", "right"}
    /\ (pc = "dp_done" /\ Len(arg.points) >= 2) =>
           /\ Len(ret) >= 2
           /\ \E K \in SUBSET (1..Len(arg.points)) :
                  /\ 1 \in K
                  /\ Len(arg.points) \in K
                  /\ ret = Restrict(arg.points, K)
           /\ Len(arg.points) < 3 => ret = arg.points

\* C21: for an input of at least 2 points and a tolerance >= 0,
\* douglasPeucker returns (every recursive call gets a shorter sequence, and
\* every step lowers the number of steps to go), and the result has at least
\* 2 points, in the order of the input, from its first to its last point; an
\* input of fewer than 3 points is returned unchanged.
C21_SimplificationTerminates ==
    /\ []StepsInvariant
    /\ [][StepsToGo' < StepsToGo /\ StepsToGo' >= 0]_vars

\* a sequence of 4 points was split and a point of it was dropped
C21_Witness ==
    /\ pc = "dp_done"
    /\ Len(arg.points) = 4
    /\ Len(ret) = 3
    /\ ret # SubSeq(arg.points, 1, 3)
    /\ ret # SubSeq(arg.points, 2, 4)

-----------------------------------------------------------------------------
(* classifyShape on polygons of many vertices and low extent *)

=============================================================================
